---- MODULE Spec2Model ----
(***************************************************************************)
(* Model of vlm-service/main.py: the report synthesis engine               *)
(* (generate_report, generate_report_summary, get_overall_recommendation)  *)
(* and the explanation formatter (explain_anomaly, get_followup_questions).*)
(*                                                                         *)
(* Strings that the code builds by formatting are modelled as sequences of *)
(* parts, so that "contains", "lists" and "in this order" can be checked.  *)
(***************************************************************************)
EXTENDS Integers, Sequences, FiniteSets, TLC

VARIABLES
    sessions,       \* table sessions: session id -> row, or NoRow
    anomalies_tbl,  \* table anomalies: session id -> rows ORDER BY detected_at ASC
    events_tbl,     \* table events: session id -> COUNT(*)
    reports,        \* table reports: the committed rows, in insertion order
    report_id_seq,  \* last value handed out by the reports.id sequence
    conns,          \* database connections obtained from get_db(), one per call
    calls,          \* one record per finished generate_report call
    clock,          \* NOW() / datetime.utcnow(), a logical clock
    anomalies,      \* input list of the aggregator and of the recommendation policy
    summaryOut,     \* last result of generate_report_summary / get_overall_recommendation
    request,        \* ExplanationRequest under consideration
    explainOut      \* last result of explain_anomaly

vars == <<sessions, anomalies_tbl, events_tbl, reports, report_id_seq, conns,
          calls, clock, anomalies, summaryOut, request, explainOut>>

serviceVars == <<sessions, anomalies_tbl, events_tbl, reports, report_id_seq,
                 conns, calls, clock>>
summaryVars == <<anomalies, summaryOut>>
explainVars == <<request, explainOut>>

-----------------------------------------------------------------------------
(* Bounds of the model *)

MaxAnoms == 4      \* longest anomaly list fed to the aggregator
MaxCalls == 3      \* number of generate_report calls in one behaviour

-----------------------------------------------------------------------------
(* Values *)

\* Python None / SQL NULL for a timestamp column; timestamps are >= 0.
NULL == -1

Min(a, b) == IF a < b THEN a ELSE b

\* Index of the first element of s satisfying the key test, 0 when absent.
RECURSIVE KeyIndexFrom(_, _, _)
KeyIndexFrom(d, k, i) ==
    IF i > Len(d) THEN 0
    ELSE IF d[i].key = k THEN i
    ELSE KeyIndexFrom(d, k, i + 1)

\* A Python dict with insertion order: a sequence of [key, val] without
\* repeated keys.  dict.get(k, default):
DictGet(d, k, default) ==
    LET i == KeyIndexFrom(d, k, 1)
    IN  IF i = 0 THEN default ELSE d[i].val

\* d[k] = v: overwrite in place when the key exists, else append at the end.
DictSet(d, k, v) ==
    LET i == KeyIndexFrom(d, k, 1)
    IN  IF i = 0 THEN Append(d, [key |-> k, val |-> v])
        ELSE [d EXCEPT ![i] = [key |-> k, val |-> v]]

\* datetime.isoformat(): the text form of a timestamp, distinct from the value.
isoformat(t) == [isoformat |-> t]

\* json.dumps(v): the serialized text of a value, distinct from the value.
json_dumps(v) == [json |-> v]

-----------------------------------------------------------------------------
(* Recommendation policy: get_overall_recommendation *)

MsgProceed == "Session appeared normal. Candidate can proceed to next stage."
MsgMultipleHigh == "Multiple high-severity flags detected. Recommend follow-up discussion with candidate."
MsgSomeConcerns == "Some concerns noted. Suggest brief follow-up to clarify flagged behaviors."
MsgMinorFlags == "Minor flags detected but likely not concerning. Candidate can proceed with note of minor observations."

IsHigh(a) == a.severity = "high"

\* [a for a in anomalies if a['severity'] == 'high']
HighSeverity(anoms) == SelectSeq(anoms, IsHigh)

\* A slip in the threshold: "> 3" written for ">= 3".
get_overall_recommendation_gt3(anoms, duration) ==
    LET high_severity == HighSeverity(anoms)
    IN  IF anoms = <<>> THEN MsgProceed
        ELSE IF Len(high_severity) > 3 THEN MsgMultipleHigh
        ELSE IF Len(high_severity) > 0 THEN MsgSomeConcerns
        ELSE MsgMinorFlags

get_overall_recommendation(anoms, duration) ==
    LET high_severity == HighSeverity(anoms)
    IN  IF anoms = <<>> THEN MsgProceed
        ELSE IF Len(high_severity) >= 3 THEN MsgMultipleHigh
        ELSE IF Len(high_severity) > 0 THEN MsgSomeConcerns
        ELSE MsgMinorFlags

-----------------------------------------------------------------------------
(* Report aggregator: generate_report_summary *)

\* One line of the summary text.  kind says which f-string produced it; text
\* and n are the values interpolated into it ("" and 0 when it has none).
\* The duration line carries the duration and the format spec it is
\* written with.
Part(kind, text, n) == [kind |-> kind, text |-> text, n |-> n]

Abs(x) == IF x < 0 THEN -x ELSE x

RECURSIVE GCD(_, _)
GCD(a, b) == IF b = 0 THEN a ELSE GCD(b, a % b)

\* seconds / 60 as a number of minutes: the quotient num / den in lowest
\* terms with den > 0 (30 s is 1/2, 90 s is 3/2, 1500 s is 25/1, -1500 s is
\* -25/1), so that a fraction of a minute is kept as the division keeps it.
Minutes(seconds) ==
    LET g == GCD(Abs(seconds), 60)
    IN  [num |-> seconds \div g, den |-> 60 \div g]

\* The literal 0 of the else branch.
ZeroMinutes == [num |-> 0, den |-> 1]

\* Duration in minutes: (ended_at - started_at).total_seconds() / 60 when
\* both timestamps are set, else 0.  Timestamps are in seconds.
Duration(session) ==
    IF session.ended_at # NULL /\ session.started_at # NULL
    THEN Minutes(session.ended_at - session.started_at)
    ELSE ZeroMinutes

\* A slip in the counting statement: "= 1" written for "= get(atype, 0) + 1".
CountOne_reset(counts, atype) == DictSet(counts, atype, 1)

\* anomaly_counts[atype] = anomaly_counts.get(atype, 0) + 1
CountOne(counts, atype) == DictSet(counts, atype, DictGet(counts, atype, 0) + 1)

\* The categorizing loop, first k anomalies: the breakdown dict.
RECURSIVE AnomalyCounts(_, _)
AnomalyCounts(anoms, k) ==
    IF k = 0 THEN <<>>
    ELSE CountOne(AnomalyCounts(anoms, k - 1), anoms[k].anomaly_type)

\* The display slice without its bound: every high-severity anomaly is listed.
TopThree_all(high_severity) == high_severity

\* high_severity[:3]
TopThree(high_severity) == SubSeq(high_severity, 1, Min(3, Len(high_severity)))

\* The warning block of the summary text.
WarningBlock(high_severity) ==
    IF high_severity # <<>>
    THEN <<Part("warning", "", Len(high_severity))>>
         \o [i \in 1..Len(TopThree(high_severity)) |->
                Part("flag", TopThree(high_severity)[i].description, 0)]
    ELSE <<>>

\* The breakdown block of the summary text.
BreakdownBlock(anomaly_counts) ==
    IF anomaly_counts # <<>>
    THEN <<Part("breakdown_header", "", 0)>>
         \o [i \in 1..Len(anomaly_counts) |->
                Part("breakdown_item", anomaly_counts[i].key, anomaly_counts[i].val)]
    ELSE <<Part("no_anomalies", "", 0)>>

\* The flag list built from the display slice instead of the whole list.
HighPriorityFlags_top3(high_severity) ==
    [i \in 1..Min(3, Len(high_severity)) |->
        [type |-> high_severity[i].anomaly_type,
         description |-> high_severity[i].description,
         detected_at |-> isoformat(high_severity[i].detected_at)]]

\* The list comprehension of the returned "high_priority_flags".
HighPriorityFlags(high_severity) ==
    [i \in 1..Len(high_severity) |->
        [type |-> high_severity[i].anomaly_type,
         description |-> high_severity[i].description,
         detected_at |-> isoformat(high_severity[i].detected_at)]]

\* a['detected_at'].isoformat() raises AttributeError on None.
SummaryRaises(anoms) ==
    \E i \in 1..Len(anoms) : IsHigh(anoms[i]) /\ anoms[i].detected_at = NULL

\* The value generate_report_summary returns (when it does not raise).
generate_report_summary(session, anoms, event_summary) ==
    LET duration == Duration(session)
        anomaly_counts == AnomalyCounts(anoms, Len(anoms))
        high_severity == HighSeverity(anoms)
        summary_parts ==
            <<Part("duration", ".1f", duration), Part("total", "", Len(anoms))>>
            \o WarningBlock(high_severity)
            \o BreakdownBlock(anomaly_counts)
            \o <<Part("recommendation", get_overall_recommendation(anoms, duration), 0)>>
    IN  [summary |-> summary_parts,
         metrics |-> [duration_minutes |-> duration,
                      total_anomalies |-> Len(anoms),
                      high_severity_count |-> Len(high_severity),
                      anomaly_breakdown |-> anomaly_counts,
                      event_count |-> event_summary.event_count],
         high_priority_flags |-> HighPriorityFlags(high_severity)]

-----------------------------------------------------------------------------
(* Inputs of the aggregator *)

Severities == {"low", "medium", "high"}

\* Anomaly types that occur in the anomaly lists of the model.
ListedTypes == {"object_phone", "off_screen_gaze", "face_absence"}

\* The i-th row of a result set ordered by detected_at: the free-text
\* description and the detection time are distinct per row, and the times
\* ascend with the position.  (A row without detection time sorts last under
\* ORDER BY detected_at ASC; the lists of the model may end with one.)
AnomalyAt(i, atype, severity) ==
    [anomaly_type |-> atype,
     severity |-> severity,
     description |-> "flag " \o ToString(i),
     detected_at |-> 60 * i]

\* Session rows and event summaries the aggregator is applied to.
SampleSessions ==
    { [session |-> [started_at |-> 0, ended_at |-> 1500], event_count |-> 12],
      [session |-> [started_at |-> 0, ended_at |-> NULL], event_count |-> 0],
      [session |-> [started_at |-> NULL, ended_at |-> 1500], event_count |-> 12],
      [session |-> [started_at |-> 1500, ended_at |-> 0], event_count |-> 3],
      [session |-> [started_at |-> 60, ended_at |-> 90], event_count |-> 3] }

\* Values passed as duration to the recommendation policy.
SampleDurations == {ZeroMinutes, Minutes(30)}

NoOutput == [op |-> "none"]

-----------------------------------------------------------------------------
(* Specification of the aggregator and the recommendation policy as        *)
(* functions of an arbitrary anomaly list                                   *)

IdleService ==
    /\ sessions = <<>>
    /\ anomalies_tbl = <<>>
    /\ events_tbl = <<>>
    /\ reports = <<>>
    /\ report_id_seq = 0
    /\ conns = <<>>
    /\ calls = <<>>
    /\ clock = 0

IdleSummary ==
    /\ anomalies = <<>>
    /\ summaryOut = NoOutput

InitSummary ==
    /\ IdleService
    /\ \E n \in 0..MaxAnoms :
         \E ts \in [1..n -> ListedTypes], ss \in [1..n -> Severities],
            last_undated \in BOOLEAN :
            anomalies = [i \in 1..n |->
                            IF i = n /\ last_undated
                            THEN [AnomalyAt(i, ts[i], ss[i]) EXCEPT !.detected_at = NULL]
                            ELSE AnomalyAt(i, ts[i], ss[i])]
    /\ summaryOut = NoOutput
    /\ request = NoOutput
    /\ explainOut = NoOutput

\* A call generate_report_summary(session, anomalies, event_summary).
GenerateReportSummary ==
    /\ \E s \in SampleSessions :
         summaryOut' =
            IF SummaryRaises(anomalies)
            THEN [op |-> "generate_report_summary", raised |-> TRUE]
            ELSE [op |-> "generate_report_summary", raised |-> FALSE,
                  session |-> s.session,
                  result |-> generate_report_summary(
                                s.session, anomalies, [event_count |-> s.event_count])]
    /\ UNCHANGED <<anomalies, serviceVars, explainVars>>

\* A call get_overall_recommendation(anomalies, duration).
GetOverallRecommendation ==
    /\ \E d \in SampleDurations :
         summaryOut' = [op |-> "get_overall_recommendation", raised |-> FALSE,
                        duration |-> d,
                        result |-> get_overall_recommendation(anomalies, d)]
    /\ UNCHANGED <<anomalies, serviceVars, explainVars>>

NextSummary == GenerateReportSummary \/ GetOverallRecommendation

SpecSummary == InitSummary /\ [][NextSummary]_vars

-----------------------------------------------------------------------------
(* Properties of the aggregator and the recommendation policy *)

\* Positions of the high-severity records of the input list.
HighPositions == {i \in 1..Len(anomalies) : anomalies[i].severity = "high"}

\* The k-th high-severity record of the input list, in the supplied order.
KthHigh(k) ==
    anomalies[CHOOSE i \in HighPositions :
                Cardinality({j \in HighPositions : j <= i}) = k]

Summarized == summaryOut.op = "generate_report_summary" /\ ~summaryOut.raised

RECURSIVE SumVals(_, _)
SumVals(d, k) == IF k = 0 THEN 0 ELSE d[k].val + SumVals(d, k - 1)

\* C4: get_overall_recommendation follows the ranked rules: no anomalies gives
\* the proceed message, else 3 or more high-severity anomalies give the
\* multiple-high message, else 1 or 2 give the some-concerns message, else the
\* minor-flags message; the duration passed does not change the result.
C4_RecommendationRules ==
    summaryOut.op = "get_overall_recommendation" =>
        summaryOut.result =
            CASE Len(anomalies) = 0 -> MsgProceed
              [] Len(anomalies) > 0 /\ Cardinality(HighPositions) >= 3 -> MsgMultipleHigh
              [] Len(anomalies) > 0 /\ Cardinality(HighPositions) \in {1, 2} -> MsgSomeConcerns
              [] Len(anomalies) > 0 /\ Cardinality(HighPositions) = 0 -> MsgMinorFlags

C4_Witness ==
    /\ summaryOut.op = "get_overall_recommendation"
    /\ summaryOut.duration = [num |-> 1, den |-> 2]
    /\ Cardinality(HighPositions) = 3
    /\ Len(anomalies) = 4
    /\ summaryOut.result = MsgMultipleHigh

\* C5: the breakdown counts sum to total_anomalies, which is the length of the
\* list, and the count of each type is the number of records of that type.
C5_BreakdownCounts ==
    Summarized =>
        LET m == summaryOut.result.metrics
            b == m.anomaly_breakdown
        IN  /\ m.total_anomalies = Len(anomalies)
            /\ SumVals(b, Len(b)) = m.total_anomalies
            /\ \A i, j \in 1..Len(b) : b[i].key = b[j].key => i = j
            /\ \A i \in 1..Len(b) :
                 b[i].val = Cardinality({p \in 1..Len(anomalies) :
                                            anomalies[p].anomaly_type = b[i].key})
            /\ \A p \in 1..Len(anomalies) :
                 \E i \in 1..Len(b) : b[i].key = anomalies[p].anomaly_type

C5_Witness ==
    /\ Summarized
    /\ Len(anomalies) = 4
    /\ Len(summaryOut.result.metrics.anomaly_breakdown) = 2
    /\ \E i \in 1..2 : summaryOut.result.metrics.anomaly_breakdown[i].val = 3

\* C6: high_priority_flags holds exactly the high-severity records, all of
\* them and in the supplied order; its length is high_severity_count and the
\* number of high-severity records, also when there are more than 3.
C6_HighPriorityFlagsComplete ==
    Summarized =>
        LET flags == summaryOut.result.high_priority_flags
        IN  /\ Len(flags) = Cardinality(HighPositions)
            /\ Len(flags) = summaryOut.result.metrics.high_severity_count
            /\ \A k \in 1..Len(flags) :
                 /\ flags[k].type = KthHigh(k).anomaly_type
                 /\ flags[k].description = KthHigh(k).description
                 /\ flags[k].detected_at = isoformat(KthHigh(k).detected_at)

C6_Witness ==
    /\ Summarized
    /\ Cardinality(HighPositions) = 4
    /\ Len(summaryOut.result.high_priority_flags) = 4

IsFlagPart(p) == p.kind = "flag"
IsWarningPart(p) == p.kind = "warning"

\* C10: the summary text has the warning block exactly when there is a
\* high-severity anomaly; the block announces the full number n of them and
\* lists the descriptions of the first min(3, n), in the supplied order.
C10_WarningBlock ==
    Summarized =>
        LET parts == summaryOut.result.summary
            n == Cardinality(HighPositions)
            warnings == SelectSeq(parts, IsWarningPart)
            listed == SelectSeq(parts, IsFlagPart)
        IN  /\ Len(warnings) = (IF n >= 1 THEN 1 ELSE 0)
            /\ \A w \in 1..Len(warnings) : warnings[w].n = n
            /\ Len(listed) = Min(3, n)
            /\ \A k \in 1..Len(listed) :
                 /\ listed[k].text = KthHigh(k).description
                 /\ listed[k].text = summaryOut.result.high_priority_flags[k].description
            /\ \A i \in 1..Len(parts) :
                 parts[i].kind = "warning" =>
                    \A k \in 1..Min(3, n) : parts[i + k].kind = "flag"

C10_Witness ==
    /\ Summarized
    /\ Cardinality(HighPositions) = 4
    /\ Len(SelectSeq(summaryOut.result.summary, IsFlagPart)) = 3
    /\ \E i \in 1..Len(summaryOut.result.summary) :
         /\ summaryOut.result.summary[i].kind = "warning"
         /\ summaryOut.result.summary[i].n = 4

-----------------------------------------------------------------------------
(* Template registry: ANOMALY_EXPLANATIONS and get_followup_questions *)

\* A template is a sequence of segments: literal text, or a replacement
\* field {name:spec}.
Lit(text) == [seg |-> "lit", text |-> text, field |-> "", spec |-> ""]
Field(name, spec) == [seg |-> "field", text |-> "", field |-> name, spec |-> spec]

ANOMALY_EXPLANATIONS ==
    << [key |-> "off_screen_gaze",
        val |-> << Lit("The candidate was looking away from the screen for "),
                   Field("rate", ".0%"),
                   Lit(" of the last "),
                   Field("window", ""),
                   Lit(". This may indicate they were reading from notes, looking at another device, or distracted.") >>],
       [key |-> "object_phone",
        val |-> << Lit("A phone or mobile device was detected in the candidate's hands or nearby for "),
                   Field("duration", ".1f"),
                   Lit(" seconds. This could indicate they were using the device during the interview.") >>],
       [key |-> "object_paper",
        val |-> << Lit("Printed materials (paper or book) were visible for "),
                   Field("duration", ".1f"),
                   Lit(" seconds. This may indicate the candidate was referencing notes or documents.") >>],
       [key |-> "multi_person",
        val |-> << Lit("Another person was detected entering the frame "),
                   Field("count", ""),
                   Lit(" times. This could be someone assisting the candidate or an environmental factor.") >>],
       [key |-> "face_absence",
        val |-> << Lit("The candidate left the frame for "),
                   Field("duration", ".1f"),
                   Lit(" seconds. This could indicate they stood up, moved away, or there was a technical issue.") >>],
       [key |-> "excessive_head_movement",
        val |-> << Lit("Unusual head movement patterns were detected (yaw sigma="),
                   Field("yaw", ".1f"),
                   Lit(" deg, pitch sigma="),
                   Field("pitch", ".1f"),
                   Lit(" deg). This may indicate nervousness, reading from multiple sources, or restlessness.") >>] >>

\* The default of the template lookup in explain_anomaly.
GenericTemplate ==
    << Lit("An anomaly of type '"), Field("type", ""),
       Lit("' was detected. Please review the session data.") >>

\* The default written with a field name that format() is not given.
TemplateFor_wrongfield(anomaly_type) ==
    DictGet(ANOMALY_EXPLANATIONS, anomaly_type,
            << Lit("An anomaly of type '"), Field("anomaly_type", ""),
               Lit("' was detected. Please review the session data.") >>)

\* ANOMALY_EXPLANATIONS.get(anomaly_type, <generic template>)
TemplateFor(anomaly_type) ==
    DictGet(ANOMALY_EXPLANATIONS, anomaly_type, GenericTemplate)

\* The dict "questions" of get_followup_questions.
FollowupQuestions ==
    << [key |-> "off_screen_gaze",
        val |-> << "Can you describe your workspace setup?",
                   "Were you referencing any materials during the interview?",
                   "Did you experience any technical difficulties?" >>],
       [key |-> "object_phone",
        val |-> << "Were you using your phone for anything during the interview?",
                   "Do you recall checking your phone at any point?",
                   "Was there an emergency or important notification?" >>],
       [key |-> "object_paper",
        val |-> << "Were you referencing notes or documentation during the interview?",
                   "Can you describe what materials you had with you?",
                   "Did you prepare written notes beforehand?" >>],
       [key |-> "multi_person",
        val |-> << "Was anyone else present during your interview?",
                   "Did anyone enter your space during the session?",
                   "Can you describe your interview environment?" >>],
       [key |-> "face_absence",
        val |-> << "Did you need to step away at any point?",
                   "Were there any technical issues with your camera?",
                   "Did you experience any interruptions?" >>] >>

GenericFollowup == << "Can you provide context for this flag?" >>

get_followup_questions(anomaly_type) ==
    DictGet(FollowupQuestions, anomaly_type, GenericFollowup)

-----------------------------------------------------------------------------
(* Explanation formatter: explain_anomaly *)

\* JSON values of the metrics mapping, by kind.
Number(v) == [kind |-> "number", v |-> v]
String(v) == [kind |-> "string", v |-> v]
\* An integer beyond the float range, such as 10**400: a JSON number that
\* json.loads delivers as an int.
HugeInt == [kind |-> "huge_int", v |-> "10**400"]
JsonNull == [kind |-> "null", v |-> "null"]
JsonArray == [kind |-> "array", v |-> "[]"]
\* A key the mapping does not have.
Missing == [kind |-> "missing", v |-> ""]

\* metrics.get(key, default)
MetricsGet(metrics, key, default) ==
    IF metrics[key].kind = "missing" THEN default ELSE metrics[key]

\* format(value, spec) raises for a float/percent spec on a value that is
\* not a number (ValueError for str, TypeError for None and list) and on an
\* integer too large to convert to float (OverflowError); the empty spec is
\* str(value) and never raises.
FormatRaises(value, spec) == spec # "" /\ value.kind # "number"

\* The text of one formatted value.
Rendered(value, spec) == [seg |-> "value", text |-> value.v, field |-> value.kind, spec |-> spec]

\* template.format(**kwargs): KeyError for a field without argument, else the
\* error of the first value that does not take its spec, else the text.
RECURSIVE FormatFrom(_, _, _)
FormatFrom(template, kwargs, i) ==
    IF i > Len(template) THEN [raised |-> FALSE, text |-> <<>>]
    ELSE IF template[i].seg = "lit"
    THEN LET rest == FormatFrom(template, kwargs, i + 1)
         IN  IF rest.raised THEN rest
             ELSE [raised |-> FALSE, text |-> <<template[i]>> \o rest.text]
    ELSE IF KeyIndexFrom(kwargs, template[i].field, 1) = 0
    THEN [raised |-> TRUE, text |-> <<>>]
    ELSE IF FormatRaises(DictGet(kwargs, template[i].field, Missing), template[i].spec)
    THEN [raised |-> TRUE, text |-> <<>>]
    ELSE LET rest == FormatFrom(template, kwargs, i + 1)
         IN  IF rest.raised THEN rest
             ELSE [raised |-> FALSE,
                   text |-> <<Rendered(DictGet(kwargs, template[i].field, Missing),
                                       template[i].spec)>> \o rest.text]

Format(template, kwargs) == FormatFrom(template, kwargs, 1)

Arg(name, value) == [key |-> name, val |-> value]

\* The body of the try statement: the branch on anomaly_type and its format().
TryFormat(anomaly_type, metrics) ==
    LET template == TemplateFor(anomaly_type)
    IN  IF anomaly_type = "off_screen_gaze"
        THEN Format(template,
                    << Arg("rate", MetricsGet(metrics, "off_screen_rate", Number("0"))),
                       Arg("window", MetricsGet(metrics, "window", String("1min"))) >>)
        ELSE IF anomaly_type \in {"object_phone", "object_paper", "face_absence"}
        THEN Format(template,
                    << Arg("duration", MetricsGet(metrics, "duration_sec", Number("0"))) >>)
        ELSE IF anomaly_type = "multi_person"
        THEN Format(template,
                    << Arg("count", MetricsGet(metrics, "detection_count", Number("0"))) >>)
        ELSE IF anomaly_type = "excessive_head_movement"
        THEN Format(template,
                    << Arg("yaw", MetricsGet(metrics, "yaw_std", Number("0"))),
                       Arg("pitch", MetricsGet(metrics, "pitch_std", Number("0"))) >>)
        ELSE Format(template, << Arg("type", String(anomaly_type)) >>)

\* f"Anomaly detected: {anomaly_type}"
MinimalExplanation(anomaly_type) ==
    << Lit("Anomaly detected: "), Rendered(String(anomaly_type), "") >>

\* The confidence 0.85, in hundredths.
Confidence == 85

\* The dict explain_anomaly returns for an explanation text.
ExplainResponse(req, explanation) ==
    [raised |-> FALSE,
     anomaly_type |-> req.anomaly_type,
     explanation |-> explanation,
     confidence |-> Confidence,
     evidence_bullets |->
        << [label |-> "Detected at ", value |-> String(req.detected_at)],
           [label |-> "Metrics: ", value |-> json_dumps(req.metrics)] >>,
     suggested_followup |-> get_followup_questions(req.anomaly_type)]

\* The handler without its except clause: a failed format() ends the call.
explain_anomaly_uncaught(req) ==
    LET r == TryFormat(req.anomaly_type, req.metrics)
    IN  IF r.raised THEN [raised |-> TRUE]
        ELSE ExplainResponse(req, r.text)

explain_anomaly(req) ==
    LET r == TryFormat(req.anomaly_type, req.metrics)
    IN  ExplainResponse(req, IF r.raised THEN MinimalExplanation(req.anomaly_type)
                             ELSE r.text)

-----------------------------------------------------------------------------
(* Specification of the explanation formatter as a function of its request *)

TemplateKeys == {ANOMALY_EXPLANATIONS[i].key : i \in 1..Len(ANOMALY_EXPLANATIONS)}

\* Types without a template.
UnknownTypes == {"tab_switch", "audio_anomaly"}

MetricKeys == {"off_screen_rate", "window", "duration_sec", "detection_count",
               "yaw_std", "pitch_std"}

MetricValues == {Missing, Number("12.5"), HugeInt, String("abc"), JsonNull, JsonArray}

ExplanationRequests ==
    [anomaly_type : TemplateKeys \cup UnknownTypes,
     metrics : [MetricKeys -> MetricValues],
     detected_at : {"2024-01-01T00:00:00Z"}]

InitExplain ==
    /\ IdleService
    /\ IdleSummary
    /\ request \in ExplanationRequests
    /\ explainOut = NoOutput

\* A call explain_anomaly(request).
ExplainAnomaly ==
    /\ explainOut' = [op |-> "explain_anomaly", response |-> explain_anomaly(request)]
    /\ UNCHANGED <<request, serviceVars, summaryVars>>

\* A call get_followup_questions(request.anomaly_type).
GetFollowupQuestions ==
    /\ explainOut' = [op |-> "get_followup_questions",
                      response |-> get_followup_questions(request.anomaly_type)]
    /\ UNCHANGED <<request, serviceVars, summaryVars>>

NextExplain == ExplainAnomaly \/ GetFollowupQuestions

SpecExplain == InitExplain /\ [][NextExplain]_vars

-----------------------------------------------------------------------------
(* Properties of the explanation formatter and the template registry *)

Explained == explainOut.op = "explain_anomaly"

\* The metric values that the float and percent fields of the request's
\* template read.
SpecifiedMetrics ==
    CASE request.anomaly_type = "off_screen_gaze" -> {"off_screen_rate"}
      [] request.anomaly_type \in {"object_phone", "object_paper", "face_absence"} ->
            {"duration_sec"}
      [] request.anomaly_type = "excessive_head_movement" -> {"yaw_std", "pitch_std"}
      [] OTHER -> {}

\* Template substitution fails for the request: a value of the wrong kind,
\* or an integer beyond the float range, is supplied for a float or percent
\* field.
SubstitutionFails ==
    \E k \in SpecifiedMetrics :
        request.metrics[k].kind \in {"string", "null", "array", "huge_int"}

\* C7: get_followup_questions returns exactly 3 questions for every type that
\* has an explanation template, and the single generic question only for the
\* types that have none.
C7_ThreeFollowupsPerRecognizedType ==
    explainOut.op = "get_followup_questions" =>
        IF request.anomaly_type \in TemplateKeys
        THEN Len(explainOut.response) = 3 /\ explainOut.response # GenericFollowup
        ELSE explainOut.response = GenericFollowup

\* C8: explain_anomaly never ends in an error; when template substitution
\* fails the explanation is the minimal text built from the literal type, and
\* confidence 0.85, the two evidence bullets and the follow-ups are returned.
C8_SubstitutionFailureAbsorbed ==
    Explained =>
        /\ ~explainOut.response.raised
        /\ SubstitutionFails =>
             /\ explainOut.response.explanation =
                    << Lit("Anomaly detected: "),
                       [seg |-> "value", text |-> request.anomaly_type,
                        field |-> "string", spec |-> ""] >>
             /\ explainOut.response.confidence = 85
             /\ Len(explainOut.response.evidence_bullets) = 2
             /\ explainOut.response.evidence_bullets[1].value.v = request.detected_at
             /\ explainOut.response.evidence_bullets[2].value.json = request.metrics
             /\ Len(explainOut.response.suggested_followup) >= 1
        /\ ~SubstitutionFails =>
             explainOut.response.explanation[1].text # "Anomaly detected: "

C8_Witness ==
    /\ Explained
    /\ request.anomaly_type = "object_phone"
    /\ request.metrics["duration_sec"].kind = "string"
    /\ ~explainOut.response.raised
    /\ explainOut.response.explanation[1].text = "Anomaly detected: "

\* C9: for a type that is no key of the template registry the explanation is
\* the generic template with the literal type in it, and suggested_followup
\* is the one generic question, for every metrics mapping.
C9_UnknownTypeGeneric ==
    (Explained /\ request.anomaly_type \notin TemplateKeys) =>
        /\ ~explainOut.response.raised
        /\ explainOut.response.explanation =
              << Lit("An anomaly of type '"),
                 [seg |-> "value", text |-> request.anomaly_type,
                  field |-> "string", spec |-> ""],
                 Lit("' was detected. Please review the session data.") >>
        /\ explainOut.response.suggested_followup =
              << "Can you provide context for this flag?" >>

C9_Witness ==
    /\ Explained
    /\ request.anomaly_type = "tab_switch"
    /\ request.metrics["duration_sec"].kind = "array"
    /\ request.metrics["window"].kind = "null"
    /\ explainOut.response.explanation[2].text = "tab_switch"

-----------------------------------------------------------------------------
(* The report service: generate_report over the database *)

SessionIds == {"s1", "s2", "s3", "s4"}

NoRow == [found |-> FALSE, started_at |-> NULL, ended_at |-> NULL]
SessionRow(started_at, ended_at) ==
    [found |-> TRUE, started_at |-> started_at, ended_at |-> ended_at]

\* The store the service reads: s1 is a finished session with four anomalies,
\* s2 a session without end time and without anomalies, s3 a session whose
\* high-severity anomaly has no detection time, s4 is no session.
StoredSessions ==
    [id \in SessionIds |->
        CASE id = "s1" -> SessionRow(0, 1500)
          [] id = "s2" -> SessionRow(60, NULL)
          [] id = "s3" -> SessionRow(0, 600)
          [] OTHER -> NoRow]

StoredAnomalies ==
    [id \in SessionIds |->
        CASE id = "s1" -> << AnomalyAt(1, "object_phone", "high"),
                             AnomalyAt(2, "off_screen_gaze", "medium"),
                             AnomalyAt(3, "object_phone", "high"),
                             AnomalyAt(4, "face_absence", "low") >>
          [] id = "s3" -> << AnomalyAt(1, "multi_person", "low"),
                             [AnomalyAt(2, "object_phone", "high")
                                 EXCEPT !.detected_at = NULL] >>
          [] OTHER -> << >>]

StoredEventCounts ==
    [id \in SessionIds |->
        CASE id = "s1" -> 12 [] id = "s3" -> 3 [] OTHER -> 0]

\* The database operation of a call that raises, if any.
Faults == {"none", "connect", "select_session", "select_anomalies",
           "select_events", "insert", "commit", "close"}

\* Where the body of the try statement stops: at the database operation that
\* raises, at the 404 raised for a missing session, at the aggregation when
\* generate_report_summary raises, or at "done" when it reaches the return.
StoppedAt(session_id, fault) ==
    IF fault = "connect" THEN "connect"
    ELSE IF fault = "select_session" THEN "select_session"
    ELSE IF ~sessions[session_id].found THEN "not_found"
    ELSE IF fault = "select_anomalies" THEN "select_anomalies"
    ELSE IF fault = "select_events" THEN "select_events"
    ELSE IF SummaryRaises(anomalies_tbl[session_id]) THEN "aggregate"
    ELSE IF fault = "insert" THEN "insert"
    ELSE IF fault = "commit" THEN "commit"
    ELSE IF fault = "close" THEN "close"
    ELSE "done"

\* get_db() returned a connection.
Connected(stopped) == stopped # "connect"

\* The INSERT ... RETURNING id was executed.
Inserted(stopped) == stopped \in {"commit", "close", "done"}

\* A connection in autocommit mode: the executed INSERT is durable at once.
Committed_autocommit(stopped) == stopped \in {"commit", "close", "done"}

\* conn.commit() returned.
Committed(stopped) == stopped \in {"close", "done"}

\* conn.close() returned.
Closed(stopped) == stopped = "done"

\* The status code of the HTTPException that leaves the handler.  The 404
\* raised inside the try statement is an Exception: the except clause takes
\* it and raises the 500.
StatusOf(stopped) == IF stopped = "done" THEN 200 ELSE 500

\* The row of the INSERT statement.
ReportRow(id, session_id, report_summary) ==
    [id |-> id,
     session_id |-> session_id,
     generated_at |-> clock,
     vlm_summary |-> report_summary.summary,
     metrics |-> json_dumps(report_summary.metrics),
     report_type |-> "standard"]

NoReport == [id |-> 0]

\* One call of generate_report(request) with request.session_id = session_id,
\* in which the database operation `fault` raises (when the call reaches it).
\* The handler contains no await: it runs to its end without interleaving.
GenerateReport(session_id, fault) ==
    LET stopped == StoppedAt(session_id, fault)
        report_summary ==
            generate_report_summary(sessions[session_id], anomalies_tbl[session_id],
                                    [event_count |-> events_tbl[session_id]])
        report_id == report_id_seq + 1
        row == ReportRow(report_id, session_id, report_summary)
    IN  /\ Len(calls) < MaxCalls
        /\ clock' = clock + 1
        /\ report_id_seq' = IF Inserted(stopped) THEN report_id ELSE report_id_seq
        /\ reports' = IF Committed(stopped) THEN Append(reports, row) ELSE reports
        /\ conns' =
              IF Connected(stopped)
              THEN Append(conns,
                          [call |-> clock,
                           closed |-> Closed(stopped),
                           uncommitted |->
                              IF Inserted(stopped) /\ ~Committed(stopped)
                              THEN <<row>> ELSE <<>>])
              ELSE conns
        /\ calls' =
              Append(calls,
                     [at |-> clock,
                      session_id |-> session_id,
                      stopped |-> stopped,
                      status |-> StatusOf(stopped),
                      detail |-> IF stopped = "done" THEN ""
                                 ELSE "Report generation failed: " \o stopped,
                      connected |-> Connected(stopped),
                      closed |-> Closed(stopped),
                      committed |-> IF Committed(stopped) THEN row ELSE NoReport,
                      response |->
                         IF stopped = "done"
                         THEN [report_id |-> report_id,
                               session_id |-> session_id,
                               generated_at |-> isoformat(clock),
                               summary |-> report_summary]
                         ELSE NoReport])
        /\ UNCHANGED <<sessions, anomalies_tbl, events_tbl, summaryVars, explainVars>>

Init ==
    /\ sessions = StoredSessions
    /\ anomalies_tbl = StoredAnomalies
    /\ events_tbl = StoredEventCounts
    /\ reports = <<>>
    /\ report_id_seq = 0
    /\ conns = <<>>
    /\ calls = <<>>
    /\ clock = 1
    /\ IdleSummary
    /\ request = NoOutput
    /\ explainOut = NoOutput

Next == \E session_id \in SessionIds, fault \in Faults : GenerateReport(session_id, fault)

Spec == Init /\ [][Next]_vars

-----------------------------------------------------------------------------
(* Properties of the report service *)

Calls == 1..Len(calls)

\* The committed report rows written at the time of call c.
RowsOf(c) == {i \in 1..Len(reports) : reports[i].generated_at = calls[c].at}

\* C1: a call whose session lookup returns no row ends with the 404 error,
\* and no report row is inserted or committed by it.
C1_NotFoundIs404 ==
    \A c \in Calls :
        calls[c].stopped = "not_found" =>
            /\ calls[c].status = 404
            /\ RowsOf(c) = {}
            /\ \A k \in 1..Len(conns) :
                 conns[k].call = calls[c].at => conns[k].uncommitted = <<>>

\* C2: every call that acquired a database connection has closed it when
\* the call has ended, on the successful path and on every error path.
C2_ConnectionReleased ==
    /\ \A c \in Calls : calls[c].connected => calls[c].closed
    /\ \A k \in 1..Len(conns) : conns[k].closed

\* C3: each call that returned a report_id has committed exactly one row for
\* its session, of type 'standard'; each call that ended in an error at the
\* session lookup, a fetch, the aggregation, the insert or the commit has
\* left no committed row; a committed row is never changed by later calls.
C3_OneRowPerSuccessfulCall ==
    /\ \A c \in Calls :
         calls[c].status = 200 =>
            /\ Cardinality(RowsOf(c)) = 1
            /\ \A i \in RowsOf(c) :
                 /\ reports[i].id = calls[c].response.report_id
                 /\ reports[i].session_id = calls[c].session_id
                 /\ reports[i].report_type = "standard"
                 /\ reports[i].vlm_summary = calls[c].response.summary.summary
                 /\ reports[i].metrics.json = calls[c].response.summary.metrics
            /\ Cardinality({i \in 1..Len(reports) :
                              reports[i].id = calls[c].response.report_id}) = 1
    /\ \A c \in Calls :
         (calls[c].status # 200 /\ calls[c].stopped # "close") => RowsOf(c) = {}
    /\ \A c \in Calls :
         calls[c].committed # NoReport =>
            \E i \in 1..Len(reports) : reports[i] = calls[c].committed
    /\ \A i \in 1..Len(reports) :
         \E c \in Calls : calls[c].committed = reports[i]

C3_Witness ==
    /\ Len(calls) = 3
    /\ calls[1].status = 200
    /\ calls[2].stopped = "commit"
    /\ calls[3].status = 200
    /\ calls[3].session_id = calls[1].session_id
    /\ Len(reports) = 2
    /\ reports[1] = calls[1].committed

====
